---- MODULE Spec2Model ----
(***************************************************************************)
(* A model of autolysis.py: the credential check at import, the argument   *)
(* check, main's file check, load_data, the empty check, analyze_data,     *)
(* visualize_data, and generate_story_and_readme (the HTTP request and the *)
(* README.md write).  One script run is one behaviour.                     *)
(***************************************************************************)
EXTENDS Integers, Sequences, FiniteSets, TLC

(* ------------------------------ bounds --------------------------------- *)
\* The widest table the input file may hold.
MaxCols == 4
\* The most data rows the input file may hold.
MaxRows == 1

(* ----------------------------- constants ------------------------------- *)
\* numeric_columns[:3]
MaxCharts == 3

\* Python's None, as a label.
None == "None"

VARIABLES
    environ,        \* os.environ's AIPROXY_TOKEN once load_dotenv has run
    argv,           \* sys.argv
    pc,             \* the statement the script is at
    AIPROXY_TOKEN,  \* the module-level credential
    result,         \* load_data's local: what chardet.detect returned
    encoding,       \* load_data's local: the label handed to pd.read_csv
    df,             \* main's DataFrame: a sequence of columns
    analysis,       \* main's analysis dict
    image_files,    \* the list visualize_data builds and returns
    response,       \* what httpx.post met
    narrative,      \* generate_story_and_readme's local
    fs_charts,      \* the chart files this run saved in the working directory
    fs_readme,      \* README.md in the working directory
    stdout,         \* what print() wrote
    stderr,         \* the interpreter's traceback of an uncaught exception
    exit_code,      \* the process' exit status, -1 while it runs
    events          \* the calls made so far, in order

vars == <<environ, argv, pc, AIPROXY_TOKEN, result, encoding, df, analysis, image_files, response,
          narrative, fs_charts, fs_readme, stdout, stderr, exit_code, events>>

(* --------------------------- Python helpers ---------------------------- *)
Min(a, b) == IF a < b THEN a ELSE b

Range(s) == {s[i] : i \in 1..Len(s)}

\* s[:n]
Take(s, n) == SubSeq(s, 1, Min(n, Len(s)))

\* d.get(key, default): the default is used only when the key is missing.
DictGet(d, key, default) == IF key \in DOMAIN d THEN d[key] ELSE default

(* ------------------------------ the table ------------------------------ *)
\* What a CSV field parses to: a number, text, or a missing value.
Cells == {"num", "txt", "na"}

Header(i) == "col" \o ToString(i)

\* The fields of a column of r rows.  Nothing the script computes reads the
\* position of a row, so a column is taken with its fields in one order:
\* numbers, then text, then missing values.
Rank(cell) == CASE cell = "num" -> 1 [] cell = "txt" -> 2 [] cell = "na" -> 3

ColumnCells(r) ==
    {s \in [1..r -> Cells] :
        \A i \in 1..r : \A j \in 1..r : i < j => Rank(s[i]) <= Rank(s[j])}

Tables(c, r) ==
    {[i \in 1..c |-> [name |-> Header(i), cells |-> f[i]]] :
        f \in [1..c -> ColumnCells(r)]}

\* What the input file may hold; the table without columns is the file
\* pd.read_csv finds no columns in.
Datasets == UNION {Tables(c, r) : c \in 0..MaxCols, r \in 0..MaxRows}

NoDf == << >>

Columns(d) == [i \in 1..Len(d) |-> d[i].name]

NRows(d) == IF Len(d) = 0 THEN 0 ELSE Len(d[1].cells)

\* df.empty
IsEmpty(d) == Len(d) = 0 \/ NRows(d) = 0

\* The dtype pd.read_csv infers is a number dtype: every field is a number or
\* missing, and there is at least one row (a column of no rows is object).
IsNumber(col) ==
    /\ Len(col.cells) > 0
    /\ \A i \in 1..Len(col.cells) : col.cells[i] \in {"num", "na"}

\* df.select_dtypes(include=['number'])
SelectNumber(d) == SelectSeq(d, IsNumber)

\* column.isnull().sum()
IsNullSum(col) == Cardinality({i \in 1..Len(col.cells) : col.cells[i] = "na"})

(* ---------------------------- analyze_data ----------------------------- *)
ColumnNamed(d, c) == d[CHOOSE i \in 1..Len(d) : d[i].name = c]

\* df.describe(include='all').to_dict(): one entry of statistics per column.
Summary(d) == [c \in Range(Columns(d)) |-> "stats"]

\* A slip: the missing values counted over numeric_df instead of df.
MissingValuesNumberOnly(d) ==
    [c \in Range(Columns(SelectNumber(d))) |-> IsNullSum(ColumnNamed(d, c))]

\* df.isnull().sum().to_dict()
MissingValues(d) == [c \in Range(Columns(d)) |-> IsNullSum(ColumnNamed(d, c))]

\* numeric_df.corr().to_dict(): a coefficient for every pair of its columns.
Corr(numeric_df) ==
    [a \in Range(Columns(numeric_df)) |->
        [b \in Range(Columns(numeric_df)) |-> "r"]]

EmptyDict == [c \in {} |-> "r"]

\* A slip: > 0 for > 1, so one numeric column is correlated with itself.
CorrelationAnyNumber(d) ==
    IF Len(SelectNumber(d)) > 0 THEN Corr(SelectNumber(d)) ELSE EmptyDict

\* numeric_df.corr().to_dict() if len(numeric_df.columns) > 1 else {}
Correlation(d) ==
    IF Len(SelectNumber(d)) > 1 THEN Corr(SelectNumber(d)) ELSE EmptyDict

AnalyzeData(d) ==
    [summary        |-> Summary(d),
     missing_values |-> MissingValues(d),
     correlation    |-> Correlation(d)]

NoAnalysis ==
    [summary |-> EmptyDict, missing_values |-> EmptyDict, correlation |-> EmptyDict]

(* --------------------------- visualize_data ---------------------------- *)
\* A slip: the [:3] left out.
ChartColumnsUncapped(d) == Columns(SelectNumber(d))

\* numeric_columns[:3]
ChartColumns(d) == Take(Columns(SelectNumber(d)), MaxCharts)

\* f"{column}_distribution.png"
ImageFile(column) == column \o "_distribution.png"

(* ---------------------- generate_story_and_readme ---------------------- *)
Str(s) == [type |-> "str", val |-> s]

PyNone == [type |-> "NoneType", val |-> None]

NoNarrative == [type |-> "unbound", val |-> ""]

NoResponse == [transport |-> "none", status |-> 0, body |-> "none"]

\* What httpx.post may meet: no connection, no answer within the timeout, or
\* an answer with a status and a body.
Bodies == {"not json", "json without choices", "json without content",
           "json content null", "json content text"}

Responses ==
    {[transport |-> t, status |-> 0, body |-> "none"] :
        t \in {"ConnectError", "ReadTimeout"}}
    \cup {[transport |-> "ok", status |-> s, body |-> "none"] : s \in {404, 500}}
    \cup {[transport |-> "ok", status |-> 200, body |-> b] : b \in Bodies}

\* response.raise_for_status() raises unless the status is 2xx.
IsSuccess(status) == status \in 200..299

\* response.json()['choices'][0]['message']['content']
ExtractContent(body) ==
    CASE body = "not json"             -> [raised |-> TRUE, value |-> Str("JSONDecodeError")]
      [] body = "json without choices" -> [raised |-> TRUE, value |-> Str("KeyError: 'choices'")]
      [] body = "json without content" -> [raised |-> TRUE, value |-> Str("KeyError: 'content'")]
      [] body = "json content null"    -> [raised |-> FALSE, value |-> PyNone]
      [] body = "json content text"    -> [raised |-> FALSE, value |-> Str("story")]

\* f"Error generating story: {e}"
ErrorNarrative(e) == Str("Error generating story: " \o e)

\* The try/except around the request: every exception becomes the narrative.
Narrative(r) ==
    IF r.transport # "ok" THEN ErrorNarrative(r.transport)
    ELSE IF ~IsSuccess(r.status) THEN ErrorNarrative("HTTPStatusError")
    ELSE IF ExtractContent(r.body).raised
         THEN ErrorNarrative(ExtractContent(r.body).value.val)
         ELSE ExtractContent(r.body).value

\* f"![{img}](./{img})\n"
ImageRef(img) == "![" \o img \o "](./" \o img \o ")\n"

\* The chunks written to README.md once the narrative is a str.
ReadmeChunks(story, images) ==
    <<"# Dataset Analysis\n\n", "## Story\n", story.val \o "\n\n",
      "## Visualizations\n">>
    \o [i \in 1..Len(images) |-> ImageRef(images[i])]

(* ------------------------------ load_data ------------------------------ *)
\* What chardet.detect may return: a dict whose 'encoding' is a label or
\* None, or a dict without that key.
DetectResults ==
    {[encoding |-> e, confidence |-> "c"] :
        e \in {"ascii", "utf-8", "ISO-8859-1", None}}
    \cup {[confidence |-> "c"]}

\* How the bytes of the input file are in fact encoded.
FileEncodings == {"ascii", "utf-8", "ISO-8859-1"}

\* load_data's result before chardet.detect has returned, and after load_data has.
NoResult == [unbound |-> "result"]

\* result.get('encoding', 'utf-8')
EncodingOf(detected) == DictGet(detected, "encoding", "utf-8")

\* pd.read_csv decodes with utf-8 when its encoding argument is None.
Codec(label) == IF label = None THEN "utf-8" ELSE label

CanDecode(codec, file_encoding) ==
    \/ file_encoding = "ascii"
    \/ codec = file_encoding
    \/ codec = "ISO-8859-1"

\* pd.read_csv(file_path, encoding=label) raises on bytes the codec cannot
\* decode and on a file without columns.
ReadCsvRaises(table, file_encoding, label) ==
    \/ ~CanDecode(Codec(label), file_encoding)
    \/ Len(table) = 0

(* ----------------------------- the process ----------------------------- *)
Call(e) == events' = Append(events, e)

\* print(message)
Print_(message) == stdout' = Append(stdout, message)

\* sys.exit(code)
SysExit(code) == pc' = "exited" /\ exit_code' = code

\* An exception nobody catches: the interpreter prints the traceback and the
\* process ends with status 1.
Uncaught(exception) ==
    /\ stderr' = Append(stderr, "Traceback: " \o exception)
    /\ SysExit(1)

NoReadme == [exists |-> FALSE, chunks |-> << >>]

StaleReadme == [exists |-> TRUE, chunks |-> <<"# An earlier run\n">>]

Init ==
    /\ environ \in {None, "", "token"}
    /\ argv \in {<<"autolysis.py">>, <<"autolysis.py", "data.csv">>,
                 <<"autolysis.py", "data.csv", "more">>}
    /\ pc = "import"
    /\ AIPROXY_TOKEN = None
    /\ result = NoResult
    /\ encoding = None
    /\ df = NoDf
    /\ analysis = NoAnalysis
    /\ image_files = << >>
    /\ response = NoResponse
    /\ narrative = NoNarrative
    /\ fs_charts = {}
    /\ fs_readme \in {NoReadme, StaleReadme}
    /\ stdout = << >>
    /\ stderr = << >>
    /\ exit_code = -1
    /\ events = << >>

\* A slip: the credential read, its check left out.
ImportModuleNoCheck ==
    /\ pc = "import"
    /\ AIPROXY_TOKEN' = environ
    /\ Call("os.getenv")
    /\ pc' = "argv"
    /\ UNCHANGED <<environ, argv, result, encoding, df, analysis, image_files,
                   response, narrative, fs_charts, fs_readme, stdout, stderr,
                   exit_code>>

\* Lines 10-16: the credential is read and checked as the module is loaded.
ImportModule ==
    /\ pc = "import"
    /\ AIPROXY_TOKEN' = environ
    /\ Call("os.getenv")
    /\ IF environ \in {None, ""}
       THEN /\ Print_("Error: AIPROXY_TOKEN environment variable is not set.")
            /\ SysExit(1)
       ELSE /\ pc' = "argv"
            /\ UNCHANGED <<stdout, exit_code>>
    /\ UNCHANGED <<environ, argv, result, encoding, df, analysis, image_files, response,
                   narrative, fs_charts, fs_readme, stderr>>

\* Lines 112-116: the argument count.
ScriptEntry ==
    /\ pc = "argv"
    /\ Call("len(sys.argv)")
    /\ IF Len(argv) # 2
       THEN /\ Print_("Usage: python autolysis.py <dataset.csv>")
            /\ SysExit(1)
       ELSE /\ pc' = "main"
            /\ UNCHANGED <<stdout, exit_code>>
    /\ UNCHANGED <<environ, argv, AIPROXY_TOKEN, result, encoding, df, analysis,
                   image_files, response, narrative, fs_charts, fs_readme, stderr>>

\* Lines 94-96: main's check that the path names a file.
MainIsFile ==
    /\ pc = "main"
    /\ \E isfile \in BOOLEAN :
        IF ~isfile
        THEN /\ Call("os.path.isfile: False")
             /\ Print_("Error: File '" \o argv[2] \o "' not found.")
             /\ SysExit(1)
        ELSE /\ Call("os.path.isfile: True")
             /\ pc' = "load_data"
             /\ UNCHANGED <<stdout, exit_code>>
    /\ UNCHANGED <<environ, argv, AIPROXY_TOKEN, result, encoding, df, analysis,
                   image_files, response, narrative, fs_charts, fs_readme, stderr>>

\* Lines 99, 21-30: load_data.  The open is outside the try, so a file that
\* cannot be read is an uncaught exception; what read_csv raises is caught.
LoadData ==
    /\ pc = "load_data"
    /\ \/ /\ events' = events \o <<"load_data", "open rb: PermissionError">>
          /\ Uncaught("PermissionError")
          /\ UNCHANGED <<result, encoding, df, stdout>>
       \/ \E detected \in DetectResults, file_encoding \in FileEncodings,
             table \in Datasets :
            /\ result' = detected
            /\ encoding' = EncodingOf(detected)
            /\ IF ReadCsvRaises(table, file_encoding, encoding')
               THEN /\ events' = events \o <<"load_data", "open rb",
                                             "chardet.detect", "pd.read_csv: raised">>
                    /\ Print_("Error loading file")
                    /\ SysExit(1)
                    /\ UNCHANGED <<df, stderr>>
               ELSE /\ events' = events \o <<"load_data", "open rb",
                                             "chardet.detect", "pd.read_csv">>
                    /\ df' = table
                    /\ pc' = "df.empty"
                    /\ UNCHANGED <<stdout, stderr, exit_code>>
    /\ UNCHANGED <<environ, argv, AIPROXY_TOKEN, analysis, image_files, response,
                   narrative, fs_charts, fs_readme>>

\* A slip: the message printed, the sys.exit(1) left out.
MainCheckEmptyNoExit ==
    /\ pc = "df.empty"
    /\ result' = NoResult
    /\ encoding' = None
    /\ IF IsEmpty(df)
       THEN /\ Call("df.empty: True")
            /\ Print_("Error: Dataset is empty. Exiting.")
       ELSE /\ Call("df.empty: False")
            /\ UNCHANGED stdout
    /\ pc' = "analyze_data"
    /\ UNCHANGED <<environ, argv, AIPROXY_TOKEN, df, analysis, image_files,
                   response, narrative, fs_charts, fs_readme, stderr, exit_code>>

\* Lines 100-102: the empty check.  load_data has returned, its locals are gone.
MainCheckEmpty ==
    /\ pc = "df.empty"
    /\ result' = NoResult
    /\ encoding' = None
    /\ IF IsEmpty(df)
       THEN /\ Call("df.empty: True")
            /\ Print_("Error: Dataset is empty. Exiting.")
            /\ SysExit(1)
       ELSE /\ Call("df.empty: False")
            /\ pc' = "analyze_data"
            /\ UNCHANGED <<stdout, exit_code>>
    /\ UNCHANGED <<environ, argv, AIPROXY_TOKEN, df, analysis, image_files,
                   response, narrative, fs_charts, fs_readme, stderr>>

\* Lines 103, 32-40: analyze_data.
MainAnalyze ==
    /\ pc = "analyze_data"
    /\ analysis' = AnalyzeData(df)
    /\ Call("analyze_data")
    /\ pc' = "visualize_data"
    /\ UNCHANGED <<environ, argv, AIPROXY_TOKEN, result, encoding, df, image_files,
                   response, narrative, fs_charts, fs_readme, stdout, stderr,
                   exit_code>>

\* Lines 106, 42-57: visualize_data.  Nothing catches what plotting or
\* savefig raises: the charts saved before it stay, the process ends.
VisualizeData ==
    /\ pc = "visualize_data"
    /\ LET columns == ChartColumns(df)
           saved(n) == [i \in 1..n |-> ImageFile(columns[i])]
       IN  \/ /\ image_files' = saved(Len(columns))
              /\ fs_charts' = fs_charts \cup Range(saved(Len(columns)))
              /\ events' = events \o <<"visualize_data">>
                               \o [i \in 1..Len(columns) |-> "plt.savefig"]
              /\ pc' = "httpx.post"
              /\ UNCHANGED <<stderr, exit_code>>
           \/ \E failing \in 1..Len(columns) :
              /\ fs_charts' = fs_charts \cup Range(saved(failing - 1))
              /\ events' = events \o <<"visualize_data">>
                               \o [i \in 1..(failing - 1) |-> "plt.savefig"]
                               \o <<"plot: raised">>
              /\ Uncaught("plotting error")
              /\ UNCHANGED image_files
    /\ UNCHANGED <<environ, argv, AIPROXY_TOKEN, result, encoding, df, analysis, response,
                   narrative, fs_readme, stdout>>

\* A slip: the request sent again after it failed.
HttpPostRetry ==
    /\ pc = "httpx.post"
    /\ Len(events) < 20
    /\ \E r \in Responses :
        /\ response' = r
        /\ narrative' = Narrative(r)
        /\ pc' = IF Narrative(r) = Str("story") THEN "write README.md"
                 ELSE "httpx.post"
    /\ Call("httpx.post")
    /\ UNCHANGED <<environ, argv, AIPROXY_TOKEN, result, encoding, df, analysis,
                   image_files, fs_charts, fs_readme, stdout, stderr, exit_code>>

\* Lines 109, 63-82: the one request, and the except that turns every
\* exception into the narrative.
HttpPost ==
    /\ pc = "httpx.post"
    /\ \E r \in Responses :
        /\ response' = r
        /\ narrative' = Narrative(r)
    /\ Call("httpx.post")
    /\ pc' = "write README.md"
    /\ UNCHANGED <<environ, argv, AIPROXY_TOKEN, result, encoding, df, analysis,
                   image_files, fs_charts, fs_readme, stdout, stderr, exit_code>>

\* Lines 84-91: open("README.md", "w") truncates the file; narrative + "\n\n"
\* is a TypeError unless the narrative is a str, which ends the with block
\* (the two chunks written before it are flushed) and the process.
WriteReadme ==
    /\ pc = "write README.md"
    /\ Call("open README.md w")
    /\ IF narrative.type = "str"
       THEN /\ fs_readme' = [exists |-> TRUE,
                             chunks |-> ReadmeChunks(narrative, image_files)]
            /\ pc' = "print"
            /\ UNCHANGED <<stderr, exit_code>>
       ELSE /\ fs_readme' = [exists |-> TRUE,
                             chunks |-> <<"# Dataset Analysis\n\n", "## Story\n">>]
            /\ Uncaught("TypeError")
    /\ UNCHANGED <<environ, argv, AIPROXY_TOKEN, result, encoding, df, analysis,
                   image_files, response, narrative, fs_charts, stdout>>

\* Line 110, and the end of the script.
PrintSuccess ==
    /\ pc = "print"
    /\ Print_("README.md and visualizations created successfully!")
    /\ SysExit(0)
    /\ UNCHANGED <<environ, argv, AIPROXY_TOKEN, result, encoding, df, analysis,
                   image_files, response, narrative, fs_charts, fs_readme,
                   stderr, events>>

Next ==
    \/ ImportModule
    \/ ScriptEntry
    \/ MainIsFile
    \/ LoadData
    \/ MainCheckEmpty
    \/ MainAnalyze
    \/ VisualizeData
    \/ HttpPost
    \/ WriteReadme
    \/ PrintSuccess

Spec == Init /\ [][Next]_vars

(* ------------------------------ the claims ----------------------------- *)
Exited == pc = "exited"

Happened(e) == e \in Range(events)

Count(e) == Cardinality({i \in 1..Len(events) : events[i] = e})

SuccessMessage == "README.md and visualizations created successfully!"

ReadmeOpened == Happened("open README.md w")

ReadmeUntouched == ~ReadmeOpened /\ fs_readme \in {NoReadme, StaleReadme}

\* The names of the columns of a number dtype, and the n-th of them in
\* column order.
NumberNames(d) == {d[i].name : i \in {j \in 1..Len(d) : IsNumber(d[j])}}

NthNumber(d, n) ==
    d[CHOOSE p \in 1..Len(d) :
        /\ IsNumber(d[p])
        /\ Cardinality({q \in 1..p : IsNumber(d[q])}) = n].name

\* The fatal failures.
MissingCredential == Happened("os.getenv") /\ environ \in {None, ""}
MissingArgument   == Happened("len(sys.argv)") /\ Len(argv) # 2
PathNotFound      == Happened("os.path.isfile: False")
Unreadable        == Happened("open rb: PermissionError")
Unparsable        == Happened("pd.read_csv: raised")
EmptyDataset      == Happened("df.empty: True")

\* The remote call was made and did not yield the text of a story.
NarrativeCallFailed ==
    /\ Happened("httpx.post")
    /\ \/ response.transport # "ok"
       \/ ~IsSuccess(response.status)
       \/ response.body # "json content text"

ErrorStrings ==
    {"Error generating story: " \o e :
        e \in {"ConnectError", "ReadTimeout", "HTTPStatusError", "JSONDecodeError",
               "KeyError: 'choices'", "KeyError: 'content'", "TypeError"}}

\* README.md lists exactly the charts of image_files, in order, after the
\* Visualizations header.
ListsEveryChart ==
    /\ Len(fs_readme.chunks) = 4 + Len(image_files)
    /\ fs_readme.chunks[4] = "## Visualizations\n"
    /\ \A i \in 1..Len(image_files) :
        fs_readme.chunks[4 + i] =
            "![" \o image_files[i] \o "](./" \o image_files[i] \o ")\n"

\* C1: once the run has ended after a failed remote call (a transport error
\* or timeout, a non-success status, or a body that does not hold the text at
\* choices[0].message.content), README.md is written, its Story section holds
\* an error string, its Visualizations section lists every chart that
\* visualize_data produced, and the run is a success.
C1_NarrativeFailureStillReports ==
    (Exited /\ NarrativeCallFailed) =>
        /\ fs_readme.exists
        /\ ReadmeOpened
        /\ Len(fs_readme.chunks) >= 4
        /\ fs_readme.chunks[2] = "## Story\n"
        /\ \E e \in ErrorStrings : fs_readme.chunks[3] = e \o "\n\n"
        /\ ListsEveryChart
        /\ Range(image_files) = fs_charts
        /\ exit_code = 0
        /\ stdout = <<SuccessMessage>>

\* C2: a fatal failure (missing credential, path not found, unreadable or
\* unparsable file, empty dataset) ends the process at once with a diagnostic
\* and a non-zero status, and nothing has been produced: no chart file, no
\* README.md write, no HTTP request.
C2_FatalExitNoPartialOutput ==
    (MissingCredential \/ PathNotFound \/ Unreadable \/ Unparsable \/ EmptyDataset) =>
        /\ Exited
        /\ exit_code # 0
        /\ Len(stdout) + Len(stderr) = 1
        /\ fs_charts = {}
        /\ ~Happened("plt.savefig")
        /\ ReadmeUntouched
        /\ ~Happened("httpx.post")

C2_Witness ==
    /\ Exited
    /\ EmptyDataset
    /\ Len(df) = 2
    /\ stdout = <<"Error: Dataset is empty. Exiting.">>

\* C3: once visualize_data has returned, image_files holds min(k, 3) names
\* for the k numeric columns of the dataset: the i-th is that of the i-th
\* numeric column in column order, <column>_distribution.png, and these are
\* the chart files saved.
C3_ChartsOfFirstThreeNumbers ==
    (Happened("visualize_data") /\ ~Happened("plot: raised")) =>
        /\ Len(image_files) = Min(Cardinality(NumberNames(df)), 3)
        /\ \A i \in 1..Len(image_files) :
            image_files[i] = NthNumber(df, i) \o "_distribution.png"
        /\ fs_charts = Range(image_files)
        /\ Count("plt.savefig") = Len(image_files)

C3_Witness ==
    /\ pc = "httpx.post"
    /\ Cardinality(NumberNames(df)) = 4
    /\ image_files = <<"col1_distribution.png", "col2_distribution.png",
                       "col3_distribution.png">>

Order == <<"load_data", "analyze_data", "visualize_data", "httpx.post",
           "open README.md w">>

IsStage(e) == e \in Range(Order)

Stages == SelectSeq(events, IsStage)

\* C4: the stages run in the order Loader, Analyzer, Visualizer, Narrative
\* Client, Report Writer, each at most once; the request is sent only once
\* every chart is saved, README.md is opened only once the request has
\* succeeded or failed, and at most one request is sent.
C4_StagesInOrderOnce ==
    /\ Len(Stages) <= Len(Order)
    /\ Stages = SubSeq(Order, 1, Len(Stages))
    /\ Count("httpx.post") <= 1
    /\ Happened("httpx.post") =>
        /\ fs_charts = {ImageFile(c) : c \in Range(ChartColumns(df))}
        /\ Count("plt.savefig") = Len(ChartColumns(df))
        /\ response # NoResponse
    /\ ~Happened("httpx.post") => response = NoResponse /\ narrative = NoNarrative
    /\ ReadmeOpened => Happened("httpx.post") /\ narrative # NoNarrative

C4_Witness ==
    /\ Exited
    /\ Stages = Order
    /\ response.transport = "ReadTimeout"
    /\ Len(image_files) = 2

\* C5: the exit status is 0 on success and 1 on a missing credential, a
\* missing argument, a path that is no file, an unparsable file or an empty
\* dataset; and with the credential absent the process has exited with its
\* diagnostic having done nothing but read it.
C5_ExitCodes ==
    /\ Exited => exit_code \in {0, 1}
    /\ ~Exited => exit_code = -1
    /\ (Exited /\ stdout # << >> /\ stdout[Len(stdout)] = SuccessMessage) => exit_code = 0
    /\ (MissingCredential \/ MissingArgument \/ PathNotFound \/ Unparsable
            \/ EmptyDataset) => Exited /\ exit_code = 1
    /\ (environ \in {None, ""} /\ pc # "import") =>
        /\ Exited
        /\ exit_code = 1
        /\ events = <<"os.getenv">>
        /\ stdout = <<"Error: AIPROXY_TOKEN environment variable is not set.">>
        /\ fs_charts = {}
        /\ ReadmeUntouched

C5_Witness ==
    /\ Exited
    /\ environ = None
    /\ Len(argv) = 2
    /\ exit_code = 1

\* The label load_data is to hand to the parser for a detection.
BestGuess(detected) ==
    IF "encoding" \in DOMAIN detected /\ detected["encoding"] # None
    THEN detected["encoding"]
    ELSE "utf-8"

\* C6: the label load_data hands to pd.read_csv is the detector's guess when
\* there is one and utf-8 when there is none (the key missing, or None); and
\* with no guess, load_data ends the process only when the parser raises.
C6_EncodingFallsBackToUtf8 ==
    result # NoResult =>
        /\ encoding = BestGuess(result)
        /\ (BestGuess(result) = "utf-8" /\ Exited) => Unparsable

\* What README.md is to hold for a narrative and the charts.
Report(text, images) ==
    <<"# Dataset Analysis\n\n", "## Story\n", text \o "\n\n", "## Visualizations\n">>
    \o [i \in 1..Len(images) |-> "![" \o images[i] \o "](./" \o images[i] \o ")\n"]

\* C7: once the Report Writer has run, README.md is the heading, the Story
\* section with the narrative, and the Visualizations section with one image
\* reference per chart in the Visualizer's order, and nothing else.
C7_ReadmeLayout ==
    ReadmeOpened =>
        /\ fs_readme.exists
        /\ fs_readme.chunks = Report(narrative.val, image_files)

\* C8: the correlation of the analysis is the empty mapping for a dataset with
\* fewer than two numeric columns, and else a matrix over exactly the numeric
\* columns.
C8_CorrelationOverNumbers ==
    Happened("analyze_data") =>
        IF Cardinality(NumberNames(df)) < 2
        THEN DOMAIN analysis.correlation = {}
        ELSE /\ DOMAIN analysis.correlation = NumberNames(df)
             /\ \A a \in NumberNames(df) :
                    DOMAIN analysis.correlation[a] = NumberNames(df)

C8_Witness ==
    /\ Happened("analyze_data")
    /\ Cardinality(NumberNames(df)) = 1
    /\ Len(df) = 2
    /\ DOMAIN analysis.correlation = {}

\* C9: the analysis of a loaded dataset of at least one row has a missing
\* value count for every column, each from 0 to the number of rows.
C9_MissingValueCounts ==
    Happened("analyze_data") =>
        /\ NRows(df) >= 1
        /\ DOMAIN analysis.missing_values = {df[i].name : i \in 1..Len(df)}
        /\ \A c \in DOMAIN analysis.missing_values :
            /\ analysis.missing_values[c] >= 0
            /\ analysis.missing_values[c] <= NRows(df)

C9_Witness ==
    /\ Happened("analyze_data")
    /\ Len(df) = 2
    /\ df[1].cells = <<"txt">>
    /\ analysis.missing_values["col1"] = 0
    /\ analysis.missing_values["col2"] = NRows(df)

\* C10: in a run that has ended, README.md was written if and only if the
\* run ended with status 0 and the success message; and a run in which
\* plotting failed wrote no README.md and sent no request.
C10_ReadmeIffSuccess ==
    Exited =>
        /\ ReadmeOpened <=> (exit_code = 0 /\ stdout = <<SuccessMessage>>)
        /\ Happened("plot: raised") => ReadmeUntouched /\ ~Happened("httpx.post")

====
